---------------------------- MODULE Spec2Model ----------------------------
(***************************************************************************)
(* Log anomaly detection pipeline (detecao_anomalia_logs_financeiro).      *)
(*                                                                         *)
(* The pipeline of detecao_anomalia_logs_financeiro_ler_arquivo.py:        *)
(*   ler_config_contexto -> ingestao_logs -> extrai_features ->            *)
(*   detectar_anomalias -> classifica_eventos -> gerar_alertas             *)
(* A DataFrame is a function from column names to equal-length sequences.  *)
(* Text is a sequence of one-character strings, so that lower() and the    *)
(* substring test are computed.  Floats are exact rationals <<num, den>>.  *)
(*                                                                         *)
(* IsolationForest is scikit-learn's (>= 1.2): the parameter check, the    *)
(* offset_ percentile, decision_function and predict are modelled as the   *)
(* library computes them.  The trees are drawn by the library's seeded     *)
(* generator; the model admits every score that is a function of the       *)
(* feature vector (equal vectors always get equal scores).                 *)
(***************************************************************************)
EXTENDS Integers, Sequences, FiniteSets, TLC

VARIABLES pc, logFile, configFile, config, df, df0, modelo_if, alertas, err, fases

vars == <<pc, logFile, configFile, config, df, df0, modelo_if, alertas, err, fases>>

\* fases is the history of the run: the pipeline steps and the calls made on
\* modelo_if, in the order they were made.

\* Longest log file (in lines) and longest DataFrame handed to a function.
MaxLen == 3

-----------------------------------------------------------------------------
(* Generic helpers *)

Range(s) == {s[i] : i \in 1..Len(s)}

SeqsUpTo(S, n) == UNION {[1..k -> S] : k \in 0..n}

Min(a, b) == IF a <= b THEN a ELSE b

\* Rationals <<n, d>> with d > 0, compared and combined exactly.
RLess(a, b) == a[1] * b[2] < b[1] * a[2]

RLeq(a, b) == a[1] * b[2] <= b[1] * a[2]

REq(a, b) == a[1] * b[2] = b[1] * a[2]

RNeg(a) == <<-a[1], a[2]>>

RAdd(a, b) == <<a[1] * b[2] + b[1] * a[2], a[2] * b[2]>>

RSub(a, b) == RAdd(a, RNeg(b))

RMul(a, b) == <<a[1] * b[1], a[2] * b[2]>>

\* k-th smallest element (1-based) of a non-empty sequence of rationals.
KthSmallest(a, k) ==
    CHOOSE v \in Range(a) :
        /\ Cardinality({i \in 1..Len(a) : RLess(a[i], v)}) < k
        /\ k <= Cardinality({i \in 1..Len(a) : RLeq(a[i], v)})

-----------------------------------------------------------------------------
(* Text: str.lower() and the `in` substring test *)

UpperChars == <<"A", "B", "C", "D", "E", "F", "G", "H", "I", "J", "K", "L", "M",
                "N", "O", "P", "Q", "R", "S", "T", "U", "V", "W", "X", "Y", "Z">>

LowerChars == <<"a", "b", "c", "d", "e", "f", "g", "h", "i", "j", "k", "l", "m",
                "n", "o", "p", "q", "r", "s", "t", "u", "v", "w", "x", "y", "z">>

LowerChar(c) ==
    IF \E i \in 1..Len(UpperChars) : UpperChars[i] = c
    THEN LowerChars[CHOOSE i \in 1..Len(UpperChars) : UpperChars[i] = c]
    ELSE c

\* x.lower()
lower(x) == [i \in 1..Len(x) |-> LowerChar(x[i])]

\* needle in hay
Contains(needle, hay) ==
    \E k \in 0..(Len(hay) - Len(needle)) :
        \A j \in 1..Len(needle) : hay[k + j] = needle[j]

ataque == <<"a", "t", "a", "q", "u", "e">>

-----------------------------------------------------------------------------
(* The inputs: log lines, configuration files *)

NoErr == [type |-> "none", at |-> "none"]

Raise(type, at) == [type |-> type, at |-> at]

\* Messages of the log lines.
MsgAtaque == <<"P", "o", "s", "s", "i", "v", "e", "l", " ", "a", "t", "a", "q", "u", "e">>
MsgAtaqueUpper == <<"A", "T", "A", "Q", "U", "E", "!">>
MsgAtaqueMixed == <<"x", "A", "t", "a", "Q", "u", "e">>
MsgAttack == <<"B", "r", "u", "t", "e", " ", "a", "t", "t", "a", "c", "k">>
MsgAtaqu == <<"a", "t", "a", "q", "u", " ", "e">>
MsgOk == <<"A", "c", "e", "s", "s", "o", " ", "o", "k">>

\* A line that matches padrao, as its four groups; ts is the text
\* "<date> <hh>:<ms>" with the hour as its two digits.
Line(hh, ip, nivel, mensagem) ==
    [match |-> TRUE,
     ts |-> [date |-> "2024-05-01", hh |-> hh, ms |-> "15:42"],
     ip |-> ip, nivel |-> nivel, mensagem |-> mensagem]

\* A line that does not match padrao.
JunkLine ==
    [match |-> FALSE,
     ts |-> [date |-> "", hh |-> <<0, 0>>, ms |-> ""],
     ip |-> "", nivel |-> "", mensagem |-> <<>>]

LogLines ==
    { JunkLine,
      Line(<<0, 3>>, "10.0.0.7", "ERROR", MsgAtaqueMixed),
      Line(<<0, 3>>, "10.0.0.7", "WARN", MsgAttack),
      Line(<<2, 3>>, "10.0.0.9", "ERROR", MsgAtaqueUpper),
      Line(<<2, 4>>, "10.0.0.8", "INFO", MsgOk) }

NoFile == [exists |-> FALSE, lines |-> <<>>]

LogFiles == {NoFile} \cup {[exists |-> TRUE, lines |-> l] : l \in SeqsUpTo(LogLines, MaxLen)}

\* JSON values of the "contamination" field.
Num(n, d) == [t |-> "num", n |-> <<n, d>>, s |-> ""]

Str(s) == [t |-> "str", n |-> <<0, 1>>, s |-> s]

Null == [t |-> "null", n |-> <<0, 1>>, s |-> ""]

ContaminationValues ==
    { Num(1, 4), Num(1, 2), Num(3, 4), Num(0, 1), Num(1, 1), Num(3, 2),
      Str("auto"), Str("alta"), Null }

\* config_contexto.json: absent, not JSON, a JSON list, or a JSON object with or
\* without the field.
CfgFile(kind, has, val) == [kind |-> kind, has |-> has, val |-> val]

ConfigFiles ==
    { CfgFile("absent", FALSE, Null), CfgFile("invalid", FALSE, Null),
      CfgFile("list", FALSE, Null), CfgFile("object", FALSE, Null) }
    \cup {CfgFile("object", TRUE, v) : v \in ContaminationValues}

\* The value ler_config_contexto returns: a dict, or whatever json.load gave.
Dict(has, val) == [kind |-> "dict", has |-> has, val |-> val]

EmptyDict == Dict(FALSE, Null)

NoConfig == [kind |-> "unset", has |-> FALSE, val |-> Null]

-----------------------------------------------------------------------------
(* DataFrames *)

BaseColumns == {"timestamp", "ip", "nivel", "mensagem"}

NoFrame == [c \in {} |-> <<>>]

\* df[name] = values
SetColumn(d, name, values) ==
    [c \in (DOMAIN d) \cup {name} |-> IF c = name THEN values ELSE d[c]]

\* len(df)
NRows(d) == IF DOMAIN d = {} THEN 0 ELSE Len(d[CHOOSE c \in DOMAIN d : TRUE])

Row(d, i) == [c \in DOMAIN d |-> d[c][i]]

\* pd.DataFrame(data) for a non-empty list of dicts
FrameOf(data) ==
    [c \in BaseColumns |-> [i \in 1..Len(data) |-> data[i][c]]]

-----------------------------------------------------------------------------
(* Etapa 2: ler_config_contexto *)

\* Mutant: the except branch falls through without its return {}.
ler_config_contexto_noreturn(file) ==
    CASE file.kind = "absent" -> EmptyDict
      [] file.kind = "invalid" -> [kind |-> "none", has |-> FALSE, val |-> Null]
      [] file.kind = "list" -> [kind |-> "list", has |-> FALSE, val |-> Null]
      [] OTHER -> Dict(file.has, file.val)

\* os.path.exists is false, or json.load raises JSONDecodeError: {} is returned;
\* otherwise whatever json.load produced is returned.
ler_config_contexto(file) ==
    CASE file.kind = "absent" -> EmptyDict
      [] file.kind = "invalid" -> EmptyDict
      [] file.kind = "list" -> [kind |-> "list", has |-> FALSE, val |-> Null]
      [] OTHER -> Dict(file.has, file.val)

-----------------------------------------------------------------------------
(* Etapa 3: ingestao_logs *)

\* strptime's %H on the two hour digits.
HourOf(ts) == 10 * ts.hh[1] + ts.hh[2]

TsValid(ts) == HourOf(ts) \in 0..23

\* pd.to_datetime(..., format="%Y-%m-%d %H:%M:%S") on one value
to_datetime(ts) == [date |-> ts.date, hour |-> HourOf(ts), ms |-> ts.ms]

\* str(Timestamp): the hour is printed with two digits again.
TimestampStr(t) == [date |-> t.date, hh |-> <<t.hour \div 10, t.hour % 10>>, ms |-> t.ms]

\* The dict appended for a line that matches padrao.
LineDict(l) == [timestamp |-> l.ts, ip |-> l.ip, nivel |-> l.nivel, mensagem |-> l.mensagem]

\* The list `data`: one dict per line that matches padrao, in file order.
MatchedLines(lines) ==
    LET kept == SelectSeq(lines, LAMBDA l : l.match)
    IN  [i \in 1..Len(kept) |-> LineDict(kept[i])]

ingestao_logs(file) ==
    LET data == MatchedLines(file.lines)
        f == FrameOf(data)
    IN  IF ~file.exists
        THEN [err |-> Raise("FileNotFoundError", "ingest"), df |-> NoFrame]
        ELSE IF data = <<>>
        THEN [err |-> Raise("KeyError", "ingest"), df |-> NoFrame]
        ELSE IF \E i \in 1..Len(data) : ~TsValid(data[i].timestamp)
        THEN [err |-> Raise("ValueError", "ingest"), df |-> NoFrame]
        ELSE [err |-> NoErr,
              df |-> SetColumn(f, "timestamp",
                        [i \in 1..Len(data) |-> to_datetime(data[i].timestamp)])]

-----------------------------------------------------------------------------
(* Etapa 4: extrai_features *)

\* Mutant: the test is made on the message as written, not on x.lower().
possivel_ataque_cased(x) == IF Contains(ataque, x) THEN 1 ELSE 0

\* lambda x: 1 if "ataque" in x.lower() else 0
possivel_ataque(x) == IF Contains(ataque, lower(x)) THEN 1 ELSE 0

extrai_features(d) ==
    LET n == NRows(d)
        d1 == SetColumn(d, "possivel_ataque",
                        [i \in 1..n |-> possivel_ataque(d["mensagem"][i])])
    IN  SetColumn(d1, "hora", [i \in 1..n |-> d["timestamp"][i].hour])

-----------------------------------------------------------------------------
(* Etapa 5: detectar_anomalias, with sklearn.ensemble.IsolationForest *)

\* df[['hora', 'possivel_ataque']]
Features(d) == [i \in 1..NRows(d) |-> <<d["hora"][i], d["possivel_ataque"][i]>>]

\* config.get("contamination", 0.1)
DefaultContamination == Num(1, 10)

ConfigGet(cfg) == IF cfg.has THEN cfg.val ELSE DefaultContamination

\* Mutant: any real in (0, 1) passes the check.
ContaminationOk_open01(c) ==
    \/ c.t = "str" /\ c.s = "auto"
    \/ c.t = "num" /\ RLess(<<0, 1>>, c.n) /\ RLess(c.n, <<1, 1>>)

\* IsolationForest's constraint on contamination: "auto" or a real in (0, 0.5].
ContaminationOk(c) ==
    \/ c.t = "str" /\ c.s = "auto"
    \/ c.t = "num" /\ RLess(<<0, 1>>, c.n) /\ RLeq(c.n, <<1, 2>>)

\* The isolation scores 2^(-E[h(x)]/c(n)) a fitted forest can give: one per
\* feature vector; 1/2 exactly when the batch holds a single distinct vector
\* (no tree can split, every path length is c(n)).
ScoreGrid == {<<1, 4>>, <<1, 2>>, <<3, 4>>}

ForestScores(X) ==
    IF Cardinality(Range(X)) <= 1
    THEN [Range(X) -> {<<1, 2>>}]
    ELSE [Range(X) -> ScoreGrid]

\* score_samples: the opposite of the isolation score (lower = more abnormal).
score_samples(iso, X) == [i \in 1..Len(X) |-> RNeg(iso[X[i]])]

\* np.percentile(a, p), linear interpolation between the two closest ranks.
Percentile(a, p) ==
    LET q == RMul(p, <<1, 100>>)
        h == RMul(<<Len(a) - 1, 1>>, q)
        lo == h[1] \div h[2]
        fr == <<h[1] % h[2], h[2]>>
        aLo == KthSmallest(a, lo + 1)
        aHi == KthSmallest(a, Min(lo + 2, Len(a)))
    IN  RAdd(aLo, RMul(fr, RSub(aHi, aLo)))

\* Mutant: the percentile is taken at the other end, 100*(1 - contamination).
FitOffset_upper(c, iso, X) ==
    IF c.t = "str"
    THEN <<-1, 2>>
    ELSE Percentile(score_samples(iso, X), RMul(<<100, 1>>, RSub(<<1, 1>>, c.n)))

\* fit: offset_ is -0.5 for "auto", else the 100*contamination percentile of
\* the training scores.
FitOffset(c, iso, X) ==
    IF c.t = "str"
    THEN <<-1, 2>>
    ELSE Percentile(score_samples(iso, X), RMul(<<100, 1>>, c.n))

\* decision_function = score_samples - offset_
decision_function(m, X) ==
    [i \in 1..Len(X) |-> RSub(score_samples(m.iso, X)[i], m.offset)]

\* Mutant: the boundary is counted as an outlier (decision_function <= 0).
PredictLabel_inclusive(dec) == IF RLeq(dec, <<0, 1>>) THEN -1 ELSE 1

\* predict: is_inlier = 1; is_inlier[decision_function < 0] = -1
PredictLabel(dec) == IF RLess(dec, <<0, 1>>) THEN -1 ELSE 1

predict(m, X) == [i \in 1..Len(X) |-> PredictLabel(decision_function(m, X)[i])]

\* Mutant: fit asks for two rows.
EnoughSamples_two(X) == Len(X) >= 2

\* check_array(ensure_min_samples=1) in fit: at least one row is required.
EnoughSamples(X) == Len(X) >= 1

NoModel == [built |-> FALSE, fitted |-> FALSE, contamination |-> Null,
            offset |-> <<0, 1>>, iso |-> [v \in {} |-> <<0, 1>>]]

\* Mutant: the forest is fitted again between the two scoring calls.
ModelCalls_refit == <<"fit", "decision_function", "fit", "predict">>

\* The calls detectar_anomalias makes on modelo_if, in order: fit, then
\* decision_function, then predict (which scores the batch again itself).
ModelCalls == <<"fit", "decision_function", "predict">>

\* detectar_anomalias(df, config), the fitted forest scoring by iso.
detectar_anomalias(d, cfg, iso) ==
    LET X == Features(d)
        c == ConfigGet(cfg)
        built == [NoModel EXCEPT !.built = TRUE, !.contamination = c]
        m == [built EXCEPT !.fitted = TRUE, !.offset = FitOffset(c, iso, X), !.iso = iso]
    IN  IF cfg.kind # "dict"
        THEN [err |-> Raise("AttributeError", "detect"), df |-> d, modelo |-> NoModel,
              calls |-> <<>>]
        ELSE IF ~ContaminationOk(c)
        THEN [err |-> Raise("InvalidParameterError", "detect"), df |-> d, modelo |-> built,
              calls |-> SubSeq(ModelCalls, 1, 1)]
        ELSE IF ~EnoughSamples(X)
        THEN [err |-> Raise("ValueError", "detect"), df |-> d, modelo |-> built,
              calls |-> SubSeq(ModelCalls, 1, 1)]
        ELSE [err |-> NoErr,
              df |-> SetColumn(SetColumn(d, "anomaly_score", decision_function(m, X)),
                               "anomaly", predict(m, X)),
              modelo |-> m,
              calls |-> ModelCalls]

-----------------------------------------------------------------------------
(* Etapa 6: classifica_eventos ("Critico" stands for the source's accented *)
(* literal)                                                                *)

\* Mutant: the attack flag is not consulted for the Critical tier.
classifica_eventos_noflag(row) ==
    IF row["anomaly"] = -1
    THEN "Critico"
    ELSE IF row["anomaly"] = 1 /\ row["possivel_ataque"] = 1
    THEN "Suspeito"
    ELSE "Normal"

classifica_eventos(row) ==
    IF row["anomaly"] = -1 /\ row["possivel_ataque"] = 1
    THEN "Critico"
    ELSE IF row["anomaly"] = 1 /\ row["possivel_ataque"] = 1
    THEN "Suspeito"
    ELSE "Normal"

\* Mutant: the result of apply is attached in reverse row order.
ApplyClassifica_reversed(d) ==
    [i \in 1..NRows(d) |-> classifica_eventos(Row(d, NRows(d) + 1 - i))]

\* df.apply(classifica_eventos, axis=1)
ApplyClassifica(d) == [i \in 1..NRows(d) |-> classifica_eventos(Row(d, i))]

-----------------------------------------------------------------------------
(* Etapa 7: gerar_alertas *)

\* df[df['classificacao'] == "Critico"]: the row numbers kept, ascending.
RECURSIVE CriticalRows(_, _)
CriticalRows(d, i) ==
    IF i > NRows(d)
    THEN <<>>
    ELSE IF d["classificacao"][i] = "Critico"
    THEN <<i>> \o CriticalRows(d, i + 1)
    ELSE CriticalRows(d, i + 1)

\* The f-string of one alert.
Alerta(evento) ==
    <<"ALERTA CRITICO: ", TimestampStr(evento["timestamp"]), " | IP: ", evento["ip"],
      " | Nivel: ", evento["nivel"], " | Mensagem: ", evento["mensagem"]>>

\* Mutant: every event that is not Normal gets an alert.
gerar_alertas_nonnormal(d) ==
    LET kept == SelectSeq([i \in 1..NRows(d) |-> i],
                          LAMBDA i : d["classificacao"][i] # "Normal")
    IN  [k \in 1..Len(kept) |-> Alerta(Row(d, kept[k]))]

\* Mutant: the Critical events are walked last to first.
gerar_alertas_reversed(d) ==
    LET eventos_criticos == CriticalRows(d, 1)
        n == Len(eventos_criticos)
    IN  [k \in 1..n |-> Alerta(Row(d, eventos_criticos[n + 1 - k]))]

\* The alerts printed, in print order.
gerar_alertas(d) ==
    LET eventos_criticos == CriticalRows(d, 1)
    IN  [k \in 1..Len(eventos_criticos) |-> Alerta(Row(d, eventos_criticos[k]))]

-----------------------------------------------------------------------------
(* The pipeline of __main__ *)

Init ==
    /\ pc = "config"
    /\ logFile \in LogFiles
    /\ configFile \in ConfigFiles
    /\ config = NoConfig
    /\ df = NoFrame
    /\ df0 = NoFrame
    /\ modelo_if = NoModel
    /\ alertas = <<>>
    /\ err = NoErr
    /\ fases = <<>>

\* config = ler_config_contexto()
LerConfig ==
    /\ pc = "config"
    /\ config' = ler_config_contexto(configFile)
    /\ pc' = "ingest"
    /\ fases' = Append(fases, "config")
    /\ UNCHANGED <<logFile, configFile, df, df0, modelo_if, alertas, err>>

\* df_logs = ingestao_logs(log_file_path); FileNotFoundError is caught by
\* __main__, any other exception ends the run.
Ingestao ==
    /\ pc = "ingest"
    /\ LET r == ingestao_logs(logFile)
       IN  /\ err' = r.err
           /\ df' = r.df
           /\ df0' = r.df
           /\ pc' = IF r.err = NoErr THEN "extract"
                    ELSE IF r.err.type = "FileNotFoundError" THEN "done"
                    ELSE "failed"
    /\ fases' = Append(fases, "ingest")
    /\ UNCHANGED <<logFile, configFile, config, modelo_if, alertas>>

\* df_logs = extrai_features(df_logs)
ExtraiFeatures ==
    /\ pc = "extract"
    /\ df' = extrai_features(df)
    /\ pc' = "detect"
    /\ fases' = Append(fases, "extract")
    /\ UNCHANGED <<logFile, configFile, config, df0, modelo_if, alertas, err>>

\* df_logs = detectar_anomalias(df_logs, config)
DetectarAnomalias ==
    /\ pc = "detect"
    /\ \E iso \in ForestScores(Features(df)) :
         LET r == detectar_anomalias(df, config, iso)
         IN  /\ err' = r.err
             /\ df' = r.df
             /\ modelo_if' = r.modelo
             /\ fases' = fases \o r.calls
             /\ pc' = IF r.err = NoErr THEN "classify" ELSE "failed"
    /\ UNCHANGED <<logFile, configFile, config, df0, alertas>>

\* df_logs['classificacao'] = df_logs.apply(classifica_eventos, axis=1)
Classifica ==
    /\ pc = "classify"
    /\ df' = SetColumn(df, "classificacao", ApplyClassifica(df))
    /\ pc' = "alert"
    /\ fases' = Append(fases, "classify")
    /\ UNCHANGED <<logFile, configFile, config, df0, modelo_if, alertas, err>>

\* gerar_alertas(df_logs)
GerarAlertas ==
    /\ pc = "alert"
    /\ alertas' = alertas \o gerar_alertas(df)
    /\ pc' = "done"
    /\ fases' = Append(fases, "alert")
    /\ UNCHANGED <<logFile, configFile, config, df, df0, modelo_if, err>>

Next ==
    \/ LerConfig
    \/ Ingestao
    \/ ExtraiFeatures
    \/ DetectarAnomalias
    \/ Classifica
    \/ GerarAlertas

Spec == Init /\ [][Next]_vars

-----------------------------------------------------------------------------
(* The functions called directly: a caller hands a DataFrame and a config  *)
(* dict to extrai_features and goes on through detectar_anomalias,         *)
(* classification and gerar_alertas, or hands a classified DataFrame to    *)
(* gerar_alertas.  The frame may be empty.                                 *)

Event(hour, ip, nivel, mensagem) ==
    [timestamp |-> [date |-> "2024-05-01", hour |-> hour, ms |-> "15:42"],
     ip |-> ip, nivel |-> nivel, mensagem |-> mensagem]

CallEvents ==
    { Event(3, "10.0.0.7", "ERROR", MsgAtaque),
      Event(23, "10.0.0.8", "INFO", MsgOk),
      Event(3, "10.0.0.7", "WARN", MsgAttack),
      Event(23, "10.0.0.9", "ERROR", MsgAtaqueUpper),
      Event(0, "10.0.0.9", "WARN", MsgAtaqueMixed),
      Event(3, "10.0.0.8", "INFO", MsgAtaqu) }

\* A DataFrame with the four typed columns and the given rows (none included).
EventFrame(rows) == [c \in BaseColumns |-> [i \in 1..Len(rows) |-> rows[i][c]]]

CallFrames == {EventFrame(rows) : rows \in SeqsUpTo(CallEvents, MaxLen)}

CallConfigs == {EmptyDict, Dict(TRUE, Num(1, 2)), Dict(TRUE, Num(3, 4))}

Tiers == {"Normal", "Suspeito", "Critico"}

InitCall ==
    /\ logFile = NoFile
    /\ configFile = CfgFile("absent", FALSE, Null)
    /\ modelo_if = NoModel
    /\ alertas = <<>>
    /\ err = NoErr
    /\ fases = <<>>
    /\ \/ /\ pc = "extract"
          /\ df \in CallFrames
          /\ config \in CallConfigs
       \/ /\ pc = "alert"
          /\ config = EmptyDict
          /\ \E n \in 0..MaxLen :
               \E rows \in [1..n -> CallEvents], tiers \in [1..n -> Tiers] :
                  df = SetColumn(EventFrame(rows), "classificacao", tiers)
    /\ df0 = df

NextCall ==
    \/ ExtraiFeatures
    \/ DetectarAnomalias
    \/ Classifica
    \/ GerarAlertas

SpecCall == InitCall /\ [][NextCall]_vars

-----------------------------------------------------------------------------
(* Properties *)

HasColumn(name) == name \in DOMAIN df

\* The batch has been classified (the classification column is in place).
Classified == HasColumn("classificacao") /\ HasColumn("anomaly")

\* Row numbers of the Critical events.
CriticalSet == {i \in 1..NRows(df) : df["classificacao"][i] = "Critico"}

\* C1: the classification of every event is the tier the decision table
\* gives for its (anomaly, possivel_ataque) pair: (-1,1) Critical, (+1,1)
\* Suspicious, (-1,0) and (+1,0) Normal; the pair is always one of the four
\* and nothing but the pair decides.
SeverityTable ==
    [p \in {-1, 1} \X {0, 1} |->
        CASE p = <<-1, 1>> -> "Critico"
          [] p = <<1, 1>> -> "Suspeito"
          [] p = <<-1, 0>> -> "Normal"
          [] p = <<1, 0>> -> "Normal"]

C1_SeverityTable ==
    Classified =>
        \A i \in 1..NRows(df) :
            /\ <<df["anomaly"][i], df["possivel_ataque"][i]>> \in DOMAIN SeverityTable
            /\ df["classificacao"][i] =
                  SeverityTable[<<df["anomaly"][i], df["possivel_ataque"][i]>>]

\* A batch holding a Critical, a Suspicious and an anomalous-but-unflagged
\* Normal event.
C1_Witness ==
    /\ Classified
    /\ \E i, j, k \in 1..NRows(df) :
         /\ df["anomaly"][i] = -1 /\ df["possivel_ataque"][i] = 1
         /\ df["classificacao"][i] = "Critico"
         /\ df["anomaly"][j] = 1 /\ df["possivel_ataque"][j] = 1
         /\ df["classificacao"][j] = "Suspeito"
         /\ df["anomaly"][k] = -1 /\ df["possivel_ataque"][k] = 0
         /\ df["classificacao"][k] = "Normal"

\* C2: once gerar_alertas has run on a classified batch, there are exactly
\* as many alerts as Critical events, every alert is the alert of a Critical
\* event, and the call raised nothing (also for an empty batch and for a
\* batch without a Critical event, which give no alert).
C2_AlertCount ==
    /\ err.at # "alert"
    /\ pc \in {"extract", "detect", "classify", "alert"} => alertas = <<>>
    /\ (pc = "done" /\ HasColumn("classificacao")) =>
          /\ Len(alertas) = Cardinality(CriticalSet)
          /\ \A k \in 1..Len(alertas) : \E i \in CriticalSet : alertas[k] = Alerta(Row(df, i))

\* gerar_alertas has run on a batch with all three tiers in it.
C2_Witness ==
    /\ pc = "done"
    /\ HasColumn("classificacao")
    /\ Len(alertas) = 1
    /\ \E i, j \in 1..NRows(df) :
         df["classificacao"][i] = "Normal" /\ df["classificacao"][j] = "Suspeito"

\* The k-th Critical row, counting from 1 in batch order.
KthCritical(k) == CHOOSE i \in CriticalSet : Cardinality({j \in CriticalSet : j < i}) = k - 1

\* C3: the k-th alert is the alert of the k-th Critical event of the batch,
\* carrying the timestamp, ip, level and message the event had when it was
\* ingested; no later stage changes those four columns.
C3_AlertOrderAndFields ==
    /\ (DOMAIN df0 # {} /\ DOMAIN df # {}) => \A c \in BaseColumns : df[c] = df0[c]
    /\ (pc = "done" /\ HasColumn("classificacao")) =>
          /\ Len(alertas) = Cardinality(CriticalSet)
          /\ \A k \in 1..Len(alertas) :
                LET i == KthCritical(k)
                IN  /\ alertas[k][2] = TimestampStr(df0["timestamp"][i])
                    /\ alertas[k][4] = df0["ip"][i]
                    /\ alertas[k][6] = df0["nivel"][i]
                    /\ alertas[k][8] = df0["mensagem"][i]

\* Two alerts with different content were printed.
C3_Witness ==
    /\ pc = "done"
    /\ Len(alertas) >= 2
    /\ alertas[1] # alertas[2]

\* C4: the classified batch has one record per ingested event, and the
\* features, label and severity at position i are those of event i.
C4_IndexAlignment ==
    (Classified /\ pc \in {"alert", "done"}) =>
        LET events == MatchedLines(logFile.lines)
        IN  /\ \A c \in DOMAIN df : Len(df[c]) = Len(events)
            /\ \A i \in 1..Len(events) :
                  LET v == <<HourOf(events[i].timestamp), possivel_ataque(events[i].mensagem)>>
                  IN  /\ df["timestamp"][i] = to_datetime(events[i].timestamp)
                      /\ df["ip"][i] = events[i].ip
                      /\ df["nivel"][i] = events[i].nivel
                      /\ df["mensagem"][i] = events[i].mensagem
                      /\ <<df["hora"][i], df["possivel_ataque"][i]>> = v
                      /\ df["anomaly_score"][i] = RSub(RNeg(modelo_if.iso[v]), modelo_if.offset)
                      /\ df["anomaly"][i] = (IF RLess(df["anomaly_score"][i], <<0, 1>>) THEN -1 ELSE 1)
                      /\ df["classificacao"][i] = SeverityTable[<<df["anomaly"][i], v[2]>>]

\* Two different events went through the whole pipeline, a junk line dropped.
C4_Witness ==
    /\ pc = "done"
    /\ Classified
    /\ NRows(df) = 2
    /\ Len(logFile.lines) = 3
    /\ df["hora"][1] # df["hora"][2]
    /\ df["classificacao"][1] # df["classificacao"][2]

-----------------------------------------------------------------------------
(* The anomaly decision *)

\* detectar_anomalias was entered.
DetectRan == modelo_if.built \/ err.at = "detect"

\* The anomaly labels are in place.
Labeled == HasColumn("anomaly")

NumericContamination == modelo_if.contamination.t = "num"

\* The isolation score of each event, higher meaning more abnormal.
IsoScores ==
    [i \in 1..NRows(df) |-> modelo_if.iso[<<df["hora"][i], df["possivel_ataque"][i]>>]]

\* The (1 - contamination)-quantile of the batch's isolation scores.
Threshold ==
    Percentile(IsoScores, RMul(<<100, 1>>, RSub(<<1, 1>>, modelo_if.contamination.n)))

AnomalyCount == Cardinality({i \in 1..NRows(df) : df["anomaly"][i] = -1})

\* C5 as stated: with a numeric contamination an event is labeled -1 exactly
\* when its score is greater than or equal to the (1 - contamination)-quantile
\* of the batch's scores (events tied at the threshold are anomalous).
C5_InclusiveThreshold ==
    (Labeled /\ NumericContamination) =>
        \A i \in 1..NRows(df) : df["anomaly"][i] = -1 <=> RLeq(Threshold, IsoScores[i])

\* C5 amended: with a numeric contamination an event is labeled -1 exactly
\* when its score is strictly greater than the (1 - contamination)-quantile
\* of the batch's scores, and +1 otherwise: events tied at the threshold are
\* labeled normal.
C5_StrictThreshold ==
    (Labeled /\ NumericContamination) =>
        \A i \in 1..NRows(df) :
            /\ df["anomaly"][i] \in {-1, 1}
            /\ df["anomaly"][i] = -1 <=> RLess(Threshold, IsoScores[i])

\* One event above the threshold is labeled -1, one exactly at it +1.
C5_Witness ==
    /\ Labeled
    /\ NumericContamination
    /\ \E i, j \in 1..NRows(df) :
         /\ RLess(Threshold, IsoScores[i]) /\ df["anomaly"][i] = -1
         /\ REq(Threshold, IsoScores[j]) /\ df["anomaly"][j] = 1

\* Python's round() of the fraction n/d, n >= 0: half goes to the even side.
RoundHalfEven(n, d) ==
    LET fl == n \div d
        r2 == 2 * (n % d)
    IN  IF r2 < d THEN fl
        ELSE IF r2 > d THEN fl + 1
        ELSE IF fl % 2 = 0 THEN fl ELSE fl + 1

\* round(contamination * N)
ExpectedAnomalies ==
    LET c == modelo_if.contamination.n
    IN  RoundHalfEven(c[1] * NRows(df), c[2])

Abs(x) == IF x < 0 THEN -x ELSE x

ScoresDistinct ==
    \A i, j \in 1..NRows(df) : i # j => ~REq(IsoScores[i], IsoScores[j])

\* C6 as stated: the number of events labeled -1 is within 1 of
\* round(contamination * N), ties among the scores included.
C6_CountWithinOne ==
    (Labeled /\ NumericContamination) => Abs(AnomalyCount - ExpectedAnomalies) <= 1

\* C6 amended: the number of events labeled -1 never exceeds
\* round(contamination * N) + 1, and is within 1 of round(contamination * N)
\* when the scores of the batch are pairwise distinct; with tied scores it can
\* be lower, down to 0.
C6_CountBound ==
    (Labeled /\ NumericContamination) =>
        /\ AnomalyCount <= ExpectedAnomalies + 1
        /\ ScoresDistinct => Abs(AnomalyCount - ExpectedAnomalies) <= 1

\* Three events with three different scores, one of them labeled -1.
C6_Witness ==
    /\ Labeled
    /\ NumericContamination
    /\ NRows(df) = 3
    /\ ScoresDistinct
    /\ AnomalyCount = 1
    /\ ExpectedAnomalies = 2

-----------------------------------------------------------------------------
(* The configuration *)

\* The file is missing, is not JSON, or is an object without the field.
ConfigAbsorbed ==
    \/ configFile.kind \in {"absent", "invalid"}
    \/ configFile.kind = "object" /\ ~configFile.has

\* The field is there and is no number (and not the keyword "auto").
FieldNotANumber ==
    /\ configFile.kind = "object"
    /\ configFile.has
    /\ \/ configFile.val.t = "null"
       \/ configFile.val.t = "str" /\ configFile.val.s # "auto"

\* C7 as stated: with the configuration absent or malformed (file missing,
\* not JSON, field missing or not a usable number) detectar_anomalias does not
\* fail and builds the model with contamination = 0.1.
C7_MalformedAbsorbed ==
    ((ConfigAbsorbed \/ FieldNotANumber) /\ DetectRan) =>
        /\ err = NoErr
        /\ modelo_if.contamination = Num(1, 10)

\* C7 amended: with the file missing, not JSON, or without the field,
\* ler_config_contexto returns {} (for the first two) or the object as read,
\* and detectar_anomalias fits the model with contamination = 0.1 without
\* failing; a field that is present but no number is not absorbed: it is
\* handed to IsolationForest and fit fails with InvalidParameterError.
C7_AbsentAbsorbed ==
    /\ (ConfigAbsorbed /\ pc # "config") => config = EmptyDict
    /\ (ConfigAbsorbed /\ DetectRan) =>
          /\ err = NoErr
          /\ modelo_if.fitted
          /\ modelo_if.contamination = Num(1, 10)
    /\ (FieldNotANumber /\ DetectRan) =>
          /\ pc = "failed"
          /\ err = Raise("InvalidParameterError", "detect")
          /\ modelo_if.contamination = configFile.val

\* A run with a configuration file that is not JSON went through.
C7_Witness ==
    /\ configFile.kind = "invalid"
    /\ pc = "done"
    /\ modelo_if.fitted
    /\ modelo_if.contamination = Num(1, 10)
    /\ Labeled

ContaminationSupplied == configFile.kind = "object" /\ configFile.has

\* The anomaly decision was made: every event has a label in {-1, +1}.
DecisionMade ==
    /\ err = NoErr
    /\ Labeled
    /\ Len(df["anomaly"]) = NRows(df0)
    /\ \A i \in 1..NRows(df) : df["anomaly"][i] \in {-1, 1}

\* The anomaly decision failed with InvalidParameterError, uncaught; the
\* batch has no label, no classification and no alert.
DecisionRejected ==
    /\ pc = "failed"
    /\ err = Raise("InvalidParameterError", "detect")
    /\ ~HasColumn("anomaly")
    /\ ~HasColumn("anomaly_score")
    /\ ~HasColumn("classificacao")
    /\ alertas = <<>>

\* C8 as stated: a supplied contamination outside (0,1) is rejected with
\* InvalidParameterError and nothing is produced; one inside (0,1) is accepted
\* and every event gets a label.
C8_Open01 ==
    (ContaminationSupplied /\ configFile.val.t = "num" /\ DetectRan) =>
        IF RLess(<<0, 1>>, configFile.val.n) /\ RLess(configFile.val.n, <<1, 1>>)
        THEN DecisionMade
        ELSE DecisionRejected

\* C8 amended: a supplied contamination that is neither a number in (0, 0.5]
\* nor the keyword "auto" is rejected with InvalidParameterError, uncaught,
\* and no label, classification or alert is produced; a number in (0, 0.5]
\* (and "auto") is accepted and every event gets a label in {-1, +1}.
C8_HalfOpenHalf ==
    (ContaminationSupplied /\ DetectRan) =>
        IF \/ /\ configFile.val.t = "num"
              /\ 0 < configFile.val.n[1]
              /\ 2 * configFile.val.n[1] <= configFile.val.n[2]
           \/ configFile.val = Str("auto")
        THEN DecisionMade
        ELSE DecisionRejected

\* contamination = 0.75 was supplied and the run ended in the error.
C8_Witness ==
    /\ ContaminationSupplied
    /\ configFile.val = Num(3, 4)
    /\ DecisionRejected
    /\ NRows(df) >= 1

-----------------------------------------------------------------------------
(* Small batches *)

\* The configured contamination passes IsolationForest's check.
ConfigValid == ~config.has \/ config.val \in {Num(1, 2), Num(1, 4), Str("auto")}

\* C9 as stated: fitting on fewer than 2 feature vectors fails and the batch
\* gets no label, classification or alert; extraction on the empty batch
\* succeeds with an empty result.
C9_FewerThanTwoFails ==
    /\ (NRows(df0) = 0 /\ pc = "detect") => (err = NoErr /\ NRows(df) = 0)
    /\ (NRows(df0) < 2 /\ DetectRan) =>
          /\ pc = "failed"
          /\ err.at = "detect"
          /\ ~Labeled
          /\ ~HasColumn("classificacao")
          /\ alertas = <<>>

\* C9 amended: fitting on the empty batch fails (ValueError from the
\* library's input check, when the contamination itself is valid) and the
\* batch gets no label, classification or alert, while extraction on the
\* empty batch succeeds with an empty result (the two feature columns, no
\* row); a batch of exactly one feature vector is fitted and its event is
\* labeled +1.
C9_EmptyFailsOneFits ==
    /\ (NRows(df0) = 0 /\ pc = "detect") =>
          /\ err = NoErr
          /\ DOMAIN df = BaseColumns \cup {"hora", "possivel_ataque"}
          /\ \A c \in DOMAIN df : df[c] = <<>>
    /\ (NRows(df0) = 0 /\ DetectRan) =>
          /\ pc = "failed"
          /\ err.at = "detect"
          /\ ConfigValid => err.type = "ValueError"
          /\ ~Labeled
          /\ ~HasColumn("classificacao")
          /\ alertas = <<>>
    /\ (NRows(df0) = 1 /\ DetectRan /\ ConfigValid) =>
          /\ err = NoErr
          /\ modelo_if.fitted
          /\ df["anomaly"] = <<1>>

\* A batch of one event went through and was labeled +1.
C9_Witness ==
    /\ NRows(df0) = 1
    /\ pc = "done"
    /\ modelo_if.fitted
    /\ df["anomaly"] = <<1>>
    /\ df["classificacao"] = <<"Suspeito">>

-----------------------------------------------------------------------------
(* The features *)

attack == <<"a", "t", "t", "a", "c", "k">>

\* word occurs in msg, letter case aside.
ContainsIgnoringCase(word, msg) ==
    \E k \in 0..(Len(msg) - Len(word)) :
        \A j \in 1..Len(word) : LowerChar(msg[k + j]) = LowerChar(word[j])

\* The hour written in the i-th line of the log that matches padrao.
IngestedHour(i) == HourOf(MatchedLines(logFile.lines)[i].timestamp)

\* C10 as stated: possivel_ataque is 1 exactly when the message contains
\* "attack" or "ataque", case aside; hora is the timestamp's hour, in 0..23.
C10_AttackOrAtaque ==
    HasColumn("possivel_ataque") =>
        \A i \in 1..NRows(df) :
            /\ df["possivel_ataque"][i] =
                  (IF \/ ContainsIgnoringCase(attack, df["mensagem"][i])
                      \/ ContainsIgnoringCase(ataque, df["mensagem"][i])
                   THEN 1 ELSE 0)
            /\ df["hora"][i] = IngestedHour(i)
            /\ df["hora"][i] \in 0..23

\* C10 amended: possivel_ataque is 1 exactly when the message contains
\* "ataque", case aside, and 0 otherwise ("attack" is not looked for); hora is
\* the hour of the event's timestamp, in 0..23.
C10_AtaqueOnly ==
    HasColumn("possivel_ataque") =>
        \A i \in 1..NRows(df) :
            /\ df["possivel_ataque"][i] =
                  (IF ContainsIgnoringCase(ataque, df["mensagem"][i]) THEN 1 ELSE 0)
            /\ df["hora"][i] = IngestedHour(i)
            /\ df["hora"][i] = df["timestamp"][i].hour
            /\ df["hora"][i] \in 0..23

\* An "attack" message got flag 0 and an upper-case "ATAQUE" message flag 1.
C10_Witness ==
    /\ HasColumn("possivel_ataque")
    /\ \E i, j \in 1..NRows(df) :
         /\ df["mensagem"][i] = MsgAttack /\ df["possivel_ataque"][i] = 0
         /\ df["mensagem"][j] = MsgAtaqueUpper /\ df["possivel_ataque"][j] = 1
         /\ df["hora"][i] = 3 /\ df["hora"][j] = 23

-----------------------------------------------------------------------------
(* The order of the phases *)

IsPrefix(a, b) == Len(a) <= Len(b) /\ \A i \in 1..Len(a) : a[i] = b[i]

\* The phase a step of the history belongs to: decision_function and predict
\* both score the batch.
PhaseOf(step) == IF step \in {"decision_function", "predict"} THEN "score" ELSE step

\* The phases gone through so far, from ingestion on.
Phases ==
    LET steps == SelectSeq(fases, LAMBDA x : x # "config")
    IN  [i \in 1..Len(steps) |-> PhaseOf(steps[i])]

\* Every event of the batch has its classification.
AllClassified == HasColumn("classificacao") /\ Len(df["classificacao"]) = NRows(df0)

=============================================================================
